---- MODULE Spec2Model ----
(***************************************************************************)
(* State-machine model of the S3 object browser: the ObjectList widget     *)
(* (navigation state, cached listing, displayed rows, loading flag), its   *)
(* background fetch threads and the callbacks they hand to the UI thread.  *)
(* Python strings are sequences of one-character strings.                  *)
(***************************************************************************)
EXTENDS Integers, Sequences, FiniteSets, Bags, TLC

VARIABLES
    current_bucket,             \* ObjectList.current_bucket (reactive)
    current_prefix,             \* ObjectList.current_prefix (reactive)
    objects,                    \* ObjectList.objects: the displayed rows
    _all_objects,               \* ObjectList._all_objects: the cached listing
    is_loading,                 \* ObjectList.is_loading (reactive)
    _on_load_complete_callback, \* ObjectList._on_load_complete_callback
    list_display,               \* display flag of the "#object-list" ListView
    list_index,                 \* index of the "#object-list" ListView
    threads,                    \* running _load_objects_async threads (a bag)
    call_queue,                 \* callbacks handed to app.call_later (a bag)
    timers,                     \* pending set_timer(0.05, _focus_first_item) timers
    last,                       \* history: the operation that produced this state
    tracking,                   \* history: whether a request records what it was made for
    buckets,                    \* BucketList.buckets (reactive)
    bucket_is_loading,          \* BucketList.is_loading (reactive)
    bucket_threads,             \* running _load_buckets_async threads
    bucket_queue,               \* BucketList's callbacks handed to call_later (a bag)
    connection_error,           \* TitleBar.connection_error, as the bucket list sets it
    screen                      \* the screen on top of the app's screen stack

vars == <<current_bucket, current_prefix, objects, _all_objects, is_loading,
          _on_load_complete_callback, list_display, list_index, threads,
          call_queue, timers, last, tracking, buckets, bucket_is_loading,
          bucket_threads, bucket_queue, connection_error, screen>>

\* the bucket list's part of the state
bucket_vars == <<buckets, bucket_is_loading, bucket_threads, bucket_queue, connection_error>>

(***************************************************************************)
(* Bounds of the model.                                                    *)
(***************************************************************************)
MaxInFlight == 2        \* fetches requested and not yet handled by the UI thread
MaxTimers == 1          \* pending timers of one kind
MaxIndex == 3           \* largest index given to the list view

None == "None"

\* list_view.index = None: no row is highlighted
NoIndex == -1

(***************************************************************************)
(* Python string operations used by the widget.                            *)
(***************************************************************************)
Slash == "/"

Drop(s, n) == SubSeq(s, n + 1, Len(s))

StartsWith(s, p) == Len(p) <= Len(s) /\ SubSeq(s, 1, Len(p)) = p

Contains(s, c) == \E i \in 1..Len(s) : s[i] = c

RECURSIVE RStrip(_, _)
RStrip(s, c) ==
    IF s # <<>> /\ s[Len(s)] = c THEN RStrip(SubSeq(s, 1, Len(s) - 1), c) ELSE s

\* str.split(c): the pieces between the occurrences of c, empty pieces kept
RECURSIVE Split(_, _)
Split(s, c) ==
    IF ~Contains(s, c) THEN <<s>>
    ELSE LET i == CHOOSE k \in 1..Len(s) : s[k] = c /\ \A j \in 1..(k - 1) : s[j] # c
         IN <<SubSeq(s, 1, i - 1)>> \o Split(Drop(s, i), c)

\* c.join(parts)
RECURSIVE Join(_, _)
Join(parts, c) ==
    IF parts = <<>> THEN <<>>
    ELSE IF Len(parts) = 1 THEN parts[1]
    ELSE parts[1] \o <<c>> \o Join(Tail(parts), c)

Front(s) == SubSeq(s, 1, Len(s) - 1)

\* code points of the characters the model uses, for str comparison
CharOrd(c) ==
    CASE c = "." -> 46 [] c = "/" -> 47 [] c = "3" -> 51 [] c = ":" -> 58
      [] c = "G" -> 71 [] c = "a" -> 97 [] c = "b" -> 98 [] c = "c" -> 99
      [] c = "f" -> 102
      [] c = "g" -> 103 [] c = "s" -> 115 [] c = "x" -> 120 [] c = "y" -> 121

RECURSIVE StrLess(_, _)
StrLess(s, t) ==
    IF t = <<>> THEN FALSE
    ELSE IF s = <<>> THEN TRUE
    ELSE IF s[1] # t[1] THEN CharOrd(s[1]) < CharOrd(t[1])
    ELSE StrLess(Tail(s), Tail(t))

\* str.lower() on the characters the model uses
Lower(s) == [i \in 1..Len(s) |-> IF s[i] = "G" THEN "g" ELSE s[i]]

\* a set of strings as the ascending sequence of its members
RECURSIVE SortedSeq(_)
SortedSeq(S) ==
    IF S = {} THEN <<>>
    ELSE LET m == CHOOSE x \in S : \A y \in S \ {x} : StrLess(x, y)
         IN <<m>> \o SortedSeq(S \ {m})

(***************************************************************************)
(* The object store.  Two buckets with a fixed content; a listing call     *)
(* for (bucket, prefix) answers with the common prefixes ("folders") and   *)
(* the objects directly under the prefix ("files"), each in key order.     *)
(***************************************************************************)
Bx == <<"x">>
By == <<"y">>
Buckets == {Bx, By}

\* a third bucket, whose folder names are longer than those of the others
Bz == <<"z">>

S3Object(k, sz, lm) == [Key |-> k, Size |-> sz, LastModified |-> lm]

StoreContents(bucket) ==
    IF bucket = Bx
    THEN { S3Object(<<"a", "/">>, 0, [min |-> 2, sec |-> 0]),
           S3Object(<<"a", "/", "f">>, 10, [min |-> 3, sec |-> 7]),
           S3Object(<<"a", "/", "b", "/", "g">>, 20, [min |-> 5, sec |-> 0]),
           S3Object(<<"f">>, 5, [min |-> 1, sec |-> 59]) }
    ELSE IF bucket = By
    THEN { S3Object(<<"g", ".", "G">>, 2048, [min |-> 6, sec |-> 2]) }
    ELSE IF bucket = Bz
    THEN { S3Object(<<"a", "b", "/", "c", "/", "g">>, 20, [min |-> 5, sec |-> 0]) }
    ELSE {}

\* the part of s up to and including the first c
UpToFirst(s, c) ==
    LET i == CHOOSE k \in 1..Len(s) : s[k] = c /\ \A j \in 1..(k - 1) : s[j] # c
    IN SubSeq(s, 1, i)

\* the listing of a set of objects under a prefix, with "/" as the delimiter
ListingOf(contents, prefix) ==
    LET under == {o \in contents : StartsWith(o.Key, prefix)}
        rest(o) == Drop(o.Key, Len(prefix))
        fileKeys == {o.Key : o \in {u \in under : ~Contains(rest(u), Slash)}}
        commonPrefixes ==
            {prefix \o UpToFirst(rest(o), Slash) : o \in {u \in under : Contains(rest(u), Slash)}}
        byKey(k) == CHOOSE o \in under : o.Key = k
        sortedKeys == SortedSeq(fileKeys)
        sortedPrefixes == SortedSeq(commonPrefixes)
    IN [folders |-> [i \in 1..Len(sortedPrefixes) |-> [Prefix |-> sortedPrefixes[i]]],
        files |-> [i \in 1..Len(sortedKeys) |-> byKey(sortedKeys[i])]]

\* S3.list_objects_for_prefix(bucket_name, prefix): what the store answers
ListObjectsForPrefix(bucket, prefix) == ListingOf(StoreContents(bucket), prefix)

\* the empty dict {} (the initial and the cleared cache)
EmptyDict == <<>>

(***************************************************************************)
(* Row construction (ObjectList._build_ui_objects and its helpers).        *)
(***************************************************************************)
PARENT_DIR_KEY == <<".", ".">>

Digit(d) ==
    CASE d = 0 -> "0" [] d = 1 -> "1" [] d = 2 -> "2" [] d = 3 -> "3" [] d = 4 -> "4"
      [] d = 5 -> "5" [] d = 6 -> "6" [] d = 7 -> "7" [] d = 8 -> "8" [] d = 9 -> "9"

\* str(n) for a natural number
RECURSIVE Digits(_)
Digits(n) == IF n < 10 THEN <<Digit(n)>> ELSE Digits(n \div 10) \o <<Digit(n % 10)>>

\* f"{size / unit:.1f}": size / unit is exact for a power-of-two unit, and the
\* format rounds it to one decimal, ties to even
OneDecimal(size, unit) ==
    LET q == (size * 10) \div unit
        r == (size * 10) % unit
        tenths == IF 2 * r > unit \/ (2 * r = unit /\ q % 2 = 1) THEN q + 1 ELSE q
    IN Digits(tenths \div 10) \o <<".", Digit(tenths % 10)>>

format_file_size(size) ==
    IF size < 1024 THEN Digits(size) \o <<" ", "B">>
    ELSE IF size < 1024 * 1024 THEN OneDecimal(size, 1024) \o <<" ", "K", "B">>
    ELSE IF size < 1024 * 1024 * 1024 THEN OneDecimal(size, 1024 * 1024) \o <<" ", "M", "B">>
    ELSE OneDecimal(size, 1024 * 1024 * 1024) \o <<" ", "G", "B">>

\* LastModified.strftime("%Y-%m-%d %H:%M"): the seconds are dropped
Strftime(t) == Digits(t.min)

_get_file_extension(filename) ==
    IF filename = <<>> \/ ~Contains(filename, ".") THEN <<>>
    ELSE LET parts == Split(filename, ".") IN Lower(parts[Len(parts)])

_create_parent_dir_object ==
    [key |-> PARENT_DIR_KEY, is_folder |-> TRUE, size |-> <<>>, modified |-> <<>>,
     type |-> <<"d", "i", "r">>]

\* a folder row that shows a size
_create_folder_object_sized(folder_name) ==
    [key |-> folder_name, is_folder |-> TRUE, size |-> <<"0", " ", "B">>, modified |-> <<>>,
     type |-> <<"d", "i", "r">>]

_create_folder_object(folder_name) ==
    [key |-> folder_name, is_folder |-> TRUE, size |-> <<>>, modified |-> <<>>,
     type |-> <<"d", "i", "r">>]

_create_file_object(filename, s3_object) ==
    [key |-> filename, is_folder |-> FALSE, size |-> format_file_size(s3_object.Size),
     modified |-> Strftime(s3_object.LastModified), type |-> _get_file_extension(filename)]

\* dict.get(k, [])
DictGet(d, k) == IF k \in DOMAIN d THEN d[k] ELSE <<>>

RECURSIVE FolderRows(_, _)
FolderRows(folders, prefix) ==
    IF folders = <<>> THEN <<>>
    ELSE LET folder_name == RStrip(Drop(folders[1].Prefix, Len(prefix)), Slash)
         IN (IF folder_name # <<>> THEN <<_create_folder_object(folder_name)>> ELSE <<>>)
            \o FolderRows(Tail(folders), prefix)

\* file rows that keep an empty name
RECURSIVE FileRowsUnfiltered(_, _)
FileRowsUnfiltered(files, prefix) ==
    IF files = <<>> THEN <<>>
    ELSE <<_create_file_object(Drop(files[1].Key, Len(prefix)), files[1])>>
         \o FileRowsUnfiltered(Tail(files), prefix)

RECURSIVE FileRows(_, _)
FileRows(files, prefix) ==
    IF files = <<>> THEN <<>>
    ELSE LET filename == Drop(files[1].Key, Len(prefix))
         IN (IF filename # <<>> THEN <<_create_file_object(filename, files[1])>> ELSE <<>>)
            \o FileRows(Tail(files), prefix)

\* _build_ui_objects(s3_response), reading self.current_prefix as prefix
_build_ui_objects(s3_response, prefix) ==
    (IF prefix # <<>> THEN <<_create_parent_dir_object>> ELSE <<>>)
    \o FolderRows(DictGet(s3_response, "folders"), prefix)
    \o FileRows(DictGet(s3_response, "files"), prefix)

\* _filter_objects_by_prefix: the rows shown for a cached listing
FilteredObjects(all_objects, prefix) ==
    IF DOMAIN all_objects = {} THEN <<>> ELSE _build_ui_objects(all_objects, prefix)

(***************************************************************************)
(* The widget's state after mount.                                         *)
(***************************************************************************)
\* history: the operation that produced the state, its argument, the state it
\* started from (for navigation and error handling), the request whose
\* completion it handled, and the number of error notifications it emitted
Event(op, arg, before, request, notified) ==
    [op |-> op, arg |-> arg, before |-> before, request |-> request, notified |-> notified]

NoSnapshot == <<>>
NoRequest == <<>>
\* a step that is no operation of the widget's interface (a thread's step, a
\* timer, a move of the highlight)
Step == Event("step", <<>>, NoSnapshot, NoRequest, 0)

\* the screen on top of the screen stack (the modal pushed over the main
\* screen, the location it was opened for and the widget whose result callback
\* it was pushed with) and the calls of focus_list that call_later has queued
Screen(modal, s3_path, is_folder, owner, focus_calls) ==
    [modal |-> modal, s3_path |-> s3_path, is_folder |-> is_folder, owner |-> owner,
     focus_calls |-> focus_calls]

\* the screen stack holds the main screen only
MainScreen == Screen("none", <<>>, FALSE, "", 0)

\* what a step of the object list leaves alone
OutsideUnchanged == UNCHANGED <<tracking, bucket_vars, screen>>

Init ==
    /\ current_bucket = <<>>
    /\ current_prefix = <<>>
    /\ objects = <<>>
    /\ _all_objects = EmptyDict
    /\ is_loading = FALSE
    /\ _on_load_complete_callback = None
    /\ list_display = TRUE
    /\ list_index = NoIndex
    /\ threads = EmptyBag
    /\ call_queue = EmptyBag
    /\ timers = 0
    /\ last = Step
    /\ tracking = FALSE
    /\ buckets = <<>>
    /\ bucket_is_loading = FALSE
    /\ bucket_threads = 0
    /\ bucket_queue = EmptyBag
    /\ connection_error = {}
    /\ screen = MainScreen

\* fetches requested whose completion the UI thread has not handled yet
InFlight == BagCardinality(threads) + BagCardinality(call_queue)

Snapshot ==
    [bucket |-> current_bucket, prefix |-> current_prefix, all_objects |-> _all_objects,
     objects |-> objects, is_loading |-> is_loading, in_flight |-> InFlight]

Add(bag, e) == bag (+) SetToBag({e})
Remove(bag, e) == bag (-) SetToBag({e})

RECURSIVE Copies(_, _)
Copies(S, bag) ==
    IF S = {} THEN 0
    ELSE LET m == CHOOSE x \in S : TRUE IN CopiesIn(m, bag) + Copies(S \ {m}, bag)

\* the bag of f(m), m in bag
MapBag(bag, f(_)) ==
    [e \in {f(m) : m \in BagToSet(bag)} |->
        Copies({m \in BagToSet(bag) : f(m) = e}, bag)]

\* the bucket and prefix a request is made for, recorded when the history
\* tracks them
NotTracked == <<>>
RequestedPair == IF tracking THEN <<current_bucket, current_prefix>> ELSE NotTracked

\* bookkeeping of a request: the operation that made it ("superseded" once a
\* later request exists), whether bucket and prefix are still those it was
\* made for, and (when tracked) that bucket and prefix
NewRequest(origin, made_for) ==
    [origin |-> origin, for_current |-> TRUE, made_for |-> made_for]

Newest(request) == request.origin # "superseded"

\* every fetch in the bag now belongs to an older request
Older(bag, moved) ==
    LET older(e) == [e EXCEPT !.request.origin = "superseded",
                              !.request.for_current = @ /\ ~moved]
    IN MapBag(bag, older)

\* threading.Thread(target=self._load_objects_async).start()
NewThread(origin, made_for) ==
    [pc |-> "start", bucket_name |-> <<>>, request |-> NewRequest(origin, made_for)]

\* _load_bucket_objects, run after _clear_selection and is_loading = True,
\* with current_bucket' and current_prefix' already fixed by the caller
_load_bucket_objects(origin) ==
    IF current_bucket' = <<>>
    THEN \* _clear_objects
         /\ _all_objects' = EmptyDict
         /\ objects' = <<>>
         /\ is_loading' = FALSE
         /\ list_display' = TRUE
         /\ list_index' = NoIndex
         /\ UNCHANGED <<threads, call_queue>>
    ELSE LET moved == <<current_bucket', current_prefix'>> # <<current_bucket, current_prefix>>
         IN /\ InFlight < MaxInFlight
            /\ is_loading' = TRUE
            /\ list_display' = FALSE
            /\ list_index' = NoIndex
            /\ threads' = Add(Older(threads, moved), NewThread(origin, RequestedPair'))
            /\ call_queue' = Older(call_queue, moved)
            /\ UNCHANGED <<_all_objects, objects>>

(***************************************************************************)
(* Navigation.                                                             *)
(***************************************************************************)
\* watch_current_bucket(bucket_name), called when current_bucket has changed
watch_current_bucket(bucket_name) ==
    IF bucket_name # <<>>
    THEN /\ current_prefix' = <<>>
         /\ _load_bucket_objects("navigation")
    ELSE UNCHANGED <<current_prefix, _all_objects, objects, is_loading, list_display,
                     list_index, threads, call_queue>>

\* set_bucket(bucket_name): assigns the reactive attribute; its watcher runs
\* only when the value changes
set_bucket(bucket_name) ==
    /\ last' = Event("set_bucket", bucket_name, NoSnapshot, NoRequest, 0)
    /\ UNCHANGED <<_on_load_complete_callback, timers>>
    /\ IF bucket_name # current_bucket
       THEN /\ current_bucket' = bucket_name
            /\ watch_current_bucket(bucket_name)
       ELSE UNCHANGED <<current_bucket, current_prefix, _all_objects, objects, is_loading,
                        list_display, list_index, threads, call_queue>>

\* a parent prefix that loses its trailing "/"
ParentPrefixNoSlash(prefix) ==
    LET path_parts == Split(RStrip(prefix, Slash), Slash)
    IN IF Len(path_parts) > 1 THEN Join(Front(path_parts), Slash) ELSE <<>>

\* the prefix _navigate_up moves to
ParentPrefix(prefix) ==
    LET path_parts == Split(RStrip(prefix, Slash), Slash)
    IN IF Len(path_parts) > 1 THEN Join(Front(path_parts), Slash) \o <<Slash>> ELSE <<>>

\* _navigate_up without its early return
_navigate_up_unguarded ==
    /\ last' = Event("navigate_up", <<>>, Snapshot, NoRequest, 0)
    /\ UNCHANGED <<current_bucket, _on_load_complete_callback, timers>>
    /\ current_prefix' = ParentPrefix(current_prefix)
    /\ _load_bucket_objects("navigation")

_navigate_up ==
    /\ last' = Event("navigate_up", <<>>, Snapshot, NoRequest, 0)
    /\ UNCHANGED <<current_bucket, _on_load_complete_callback, timers>>
    /\ IF current_prefix = <<>>
       THEN UNCHANGED <<current_prefix, _all_objects, objects, is_loading, list_display,
                        list_index, threads, call_queue>>
       ELSE /\ current_prefix' = ParentPrefix(current_prefix)
            /\ _load_bucket_objects("navigation")

\* entering a folder without the "/" that ends a prefix
_navigate_into_folder_no_slash(folder_name) ==
    /\ last' = Event("navigate_into_folder", folder_name, Snapshot, NoRequest, 0)
    /\ UNCHANGED <<current_bucket, _on_load_complete_callback, timers>>
    /\ current_prefix' = current_prefix \o folder_name
    /\ _load_bucket_objects("navigation")

_navigate_into_folder(folder_name) ==
    /\ last' = Event("navigate_into_folder", folder_name, Snapshot, NoRequest, 0)
    /\ UNCHANGED <<current_bucket, _on_load_complete_callback, timers>>
    /\ current_prefix' = current_prefix \o folder_name \o <<Slash>>
    /\ _load_bucket_objects("navigation")

\* on_list_view_selected: the highlighted row of the visible list is selected
on_list_view_selected ==
    /\ list_display
    /\ list_index # NoIndex
    /\ list_index < Len(objects)
    /\ LET item == objects[list_index + 1]
       IN IF item.is_folder
          THEN IF item.key = PARENT_DIR_KEY
               THEN _navigate_up
               ELSE _navigate_into_folder(item.key)
          ELSE \* _handle_file_selection posts ObjectSelected
               /\ last' = Step
               /\ UNCHANGED <<current_bucket, current_prefix, _all_objects, objects,
                              is_loading, _on_load_complete_callback, list_display,
                              list_index, threads, call_queue, timers>>

\* the user moves the highlight of the visible list
highlight(i) ==
    /\ list_display
    /\ i \in 0..(Len(objects) - 1)
    /\ list_index # i
    /\ list_index' = i
    /\ last' = Step
    /\ UNCHANGED <<current_bucket, current_prefix, _all_objects, objects, is_loading,
                   _on_load_complete_callback, list_display, threads, call_queue, timers>>

Callbacks == {None, "on_complete"}

\* a refresh that goes back to the root of the bucket
refresh_objects_to_root(on_complete) ==
    /\ last' = Event("refresh_objects", <<>>, Snapshot, NoRequest, 0)
    /\ _on_load_complete_callback' = on_complete
    /\ current_prefix' = <<>>
    /\ UNCHANGED <<current_bucket, timers>>
    /\ _load_bucket_objects("refresh_objects")

refresh_objects(on_complete) ==
    /\ last' = Event("refresh_objects", <<>>, Snapshot, NoRequest, 0)
    /\ _on_load_complete_callback' = on_complete
    /\ UNCHANGED <<current_bucket, current_prefix, timers>>
    /\ _load_bucket_objects("refresh_objects")

\* refresh_objects() called by the result callback of a modal, which is the
\* operation the history records
refresh_objects_from_callback ==
    /\ _on_load_complete_callback' = None
    /\ UNCHANGED <<current_bucket, current_prefix, timers>>
    /\ _load_bucket_objects("refresh_objects")

(***************************************************************************)
(* The background thread (_load_objects_async).  It reads current_bucket   *)
(* and current_prefix itself, one after the other, calls the store, and    *)
(* hands the outcome to the UI thread with app.call_later.  The store call *)
(* takes an arbitrary time, so the callbacks of different threads reach    *)
(* the UI thread in any order: call_queue is a bag.                        *)
(***************************************************************************)
\* the evaluation of bucket_name=self.current_bucket
ThreadReadBucket(th) ==
    /\ th.pc = "start"
    /\ threads' = Add(Remove(threads, th),
                      [th EXCEPT !.pc = "bucket", !.bucket_name = current_bucket])
    /\ last' = Step
    /\ UNCHANGED <<current_bucket, current_prefix, _all_objects, objects, is_loading,
                   _on_load_complete_callback, list_display, list_index, call_queue, timers>>

\* the callback the thread passes to app.call_later
LoadedCallback(th, prefix) ==
    [kind |-> "loaded", objects |-> ListObjectsForPrefix(th.bucket_name, prefix),
     request |-> th.request]

ErrorCallback(th) == [kind |-> "error", objects |-> EmptyDict, request |-> th.request]

\* a thread that hands over the part of the listing it got before the store
\* failed
ThreadFetchPartial(th, ok) ==
    LET listing == ListObjectsForPrefix(th.bucket_name, current_prefix)
        partial == [folders |-> listing.folders, files |-> Front(listing.files)]
    IN /\ th.pc = "bucket"
       /\ threads' = Remove(threads, th)
       /\ call_queue' = Add(call_queue,
                            IF ok \/ listing.files # <<>>
                            THEN [kind |-> "loaded",
                                  objects |-> IF ok THEN listing ELSE partial,
                                  request |-> th.request]
                            ELSE ErrorCallback(th))
       /\ last' = Step
       /\ UNCHANGED <<current_bucket, current_prefix, _all_objects, objects, is_loading,
                      _on_load_complete_callback, list_display, list_index, timers>>

\* a thread that stores its listing in the cache itself
ThreadFetchWriting(th, ok) ==
    /\ th.pc = "bucket"
    /\ threads' = Remove(threads, th)
    /\ call_queue' = Add(call_queue,
                         IF ok THEN LoadedCallback(th, current_prefix) ELSE ErrorCallback(th))
    /\ _all_objects' = IF ok THEN ListObjectsForPrefix(th.bucket_name, current_prefix)
                            ELSE EmptyDict
    /\ last' = Step
    /\ UNCHANGED <<current_bucket, current_prefix, objects, is_loading,
                   _on_load_complete_callback, list_display, list_index, timers>>

\* a thread that ends without a callback when the store call raises
ThreadFetchSilent(th, ok) ==
    /\ th.pc = "bucket"
    /\ threads' = Remove(threads, th)
    /\ call_queue' = IF ok THEN Add(call_queue, LoadedCallback(th, current_prefix))
                          ELSE call_queue
    /\ last' = Step
    /\ UNCHANGED <<current_bucket, current_prefix, _all_objects, objects, is_loading,
                   _on_load_complete_callback, list_display, list_index, timers>>

\* the evaluation of prefix=self.current_prefix, the store call, which returns
\* (ok) or raises, and app.call_later
ThreadFetch(th, ok) ==
    /\ th.pc = "bucket"
    /\ threads' = Remove(threads, th)
    /\ call_queue' = Add(call_queue,
                         IF ok THEN LoadedCallback(th, current_prefix) ELSE ErrorCallback(th))
    /\ last' = Step
    /\ UNCHANGED <<current_bucket, current_prefix, _all_objects, objects, is_loading,
                   _on_load_complete_callback, list_display, list_index, timers>>

(***************************************************************************)
(* Completion handlers, run on the UI thread from the call_later queue.    *)
(***************************************************************************)
Bump(n, max) == IF n < max THEN n + 1 ELSE n

\* _on_objects_loaded(objects) for the queued callback cb
_on_objects_loaded(cb) ==
    LET rows == FilteredObjects(cb.objects, current_prefix)
    IN /\ _all_objects' = cb.objects
       /\ objects' = rows
       /\ list_index' = IF rows # objects THEN NoIndex ELSE list_index
       /\ is_loading' = FALSE
       /\ list_display' = IF is_loading THEN TRUE ELSE list_display
       /\ timers' = Bump(timers, MaxTimers)
       /\ _on_load_complete_callback' = None
       /\ last' = Event("_on_objects_loaded", <<>>, NoSnapshot, cb.request, 0)

\* an error handler that keeps the cache and the rows
_on_objects_error_keeping(cb) ==
    /\ is_loading' = FALSE
    /\ list_display' = IF is_loading THEN TRUE ELSE list_display
    /\ _on_load_complete_callback' = None
    /\ last' = Event("_on_objects_error", <<>>, Snapshot, cb.request, 1)
    /\ UNCHANGED <<_all_objects, objects, list_index, timers>>

\* _on_objects_error(error)
_on_objects_error(cb) ==
    /\ _all_objects' = EmptyDict
    /\ objects' = <<>>
    /\ list_index' = IF objects # <<>> THEN NoIndex ELSE list_index
    /\ is_loading' = FALSE
    /\ list_display' = IF is_loading THEN TRUE ELSE list_display
    /\ _on_load_complete_callback' = None
    /\ last' = Event("_on_objects_error", <<>>, Snapshot, cb.request, 1)
    /\ UNCHANGED timers

\* a completion that sends the widget back to the root on an error
RunCallbackToRoot(cb) ==
    /\ call_queue' = Remove(call_queue, cb)
    /\ current_prefix' = IF cb.kind = "error" THEN <<>> ELSE current_prefix
    /\ UNCHANGED <<current_bucket, threads>>
    /\ IF cb.kind = "loaded" THEN _on_objects_loaded(cb) ELSE _on_objects_error(cb)

RunCallback(cb) ==
    /\ call_queue' = Remove(call_queue, cb)
    /\ UNCHANGED <<current_bucket, current_prefix, threads>>
    /\ IF cb.kind = "loaded" THEN _on_objects_loaded(cb) ELSE _on_objects_error(cb)

(***************************************************************************)
(* The timer set by _on_objects_loaded.  _focus_first_item also sets a     *)
(* timer for _ensure_focus, which highlights row 0 of a visible list that  *)
(* has no highlight: a step the highlight action already takes.            *)
(***************************************************************************)
_focus_first_item ==
    /\ timers > 0
    /\ timers' = timers - 1
    /\ IF Len(objects) > 0
       THEN /\ list_display' = TRUE
            /\ list_index' = 0
       ELSE UNCHANGED <<list_display, list_index>>
    /\ last' = Step
    /\ UNCHANGED <<current_bucket, current_prefix, _all_objects, objects, is_loading,
                   _on_load_complete_callback, threads, call_queue>>

(***************************************************************************)
(* The specification.                                                      *)
(***************************************************************************)
SelectBucket == OutsideUnchanged /\ \E b \in Buckets : set_bucket(b)
SelectRow == OutsideUnchanged /\ on_list_view_selected
Highlight == OutsideUnchanged /\ \E i \in 0..(Len(objects) - 1) : highlight(i)
Refresh == OutsideUnchanged /\ \E cb \in Callbacks : refresh_objects(cb)
ReadBucket == OutsideUnchanged /\ \E th \in BagToSet(threads) : ThreadReadBucket(th)
Fetch == OutsideUnchanged /\ \E th \in BagToSet(threads), ok \in BOOLEAN : ThreadFetch(th, ok)
HandleCallback == OutsideUnchanged /\ \E cb \in BagToSet(call_queue) : RunCallback(cb)
FocusFirstItemTimer == OutsideUnchanged /\ _focus_first_item

Next ==
    \/ SelectBucket
    \/ SelectRow
    \/ Highlight
    \/ Refresh
    \/ ReadBucket
    \/ Fetch
    \/ HandleCallback
    \/ FocusFirstItemTimer

Spec == Init /\ [][Next]_vars

\* the widget with the third bucket among those the user can select
SelectWideBucket == OutsideUnchanged /\ \E b \in Buckets \cup {Bz} : set_bucket(b)

WideNext ==
    \/ SelectWideBucket
    \/ SelectRow
    \/ Highlight
    \/ Refresh
    \/ ReadBucket
    \/ Fetch
    \/ HandleCallback
    \/ FocusFirstItemTimer

WideSpec == Init /\ [][WideNext]_vars

\* the widget with a history that records what each request was made for
TrackedInit ==
    /\ current_bucket = <<>>
    /\ current_prefix = <<>>
    /\ objects = <<>>
    /\ _all_objects = EmptyDict
    /\ is_loading = FALSE
    /\ _on_load_complete_callback = None
    /\ list_display = TRUE
    /\ list_index = NoIndex
    /\ threads = EmptyBag
    /\ call_queue = EmptyBag
    /\ timers = 0
    /\ last = Step
    /\ tracking = TRUE
    /\ buckets = <<>>
    /\ bucket_is_loading = FALSE
    /\ bucket_threads = 0
    /\ bucket_queue = EmptyBag
    /\ connection_error = {}
    /\ screen = MainScreen

TrackedSpec == TrackedInit /\ [][Next]_vars

(***************************************************************************)
(* The bucket list (BucketList): on mount it queues load_buckets, which    *)
(* starts a thread that lists the buckets and hands the outcome to the UI  *)
(* thread.  Selecting a listed bucket sets the object list's bucket.       *)
(***************************************************************************)
\* S3.list_buckets(): the "Buckets" of the store's response
list_buckets ==
    <<[Name |-> Bx, CreationDate |-> [day |-> 7], BucketRegion |-> <<"e", "u">>],
      [Name |-> By, CreationDate |-> [day |-> 12]]>>

\* bucket.get("BucketRegion", "Unknown")
BucketRegionOf(bucket) ==
    IF "BucketRegion" \in DOMAIN bucket THEN bucket.BucketRegion ELSE <<"U">>

_transform_buckets_data(raw_buckets) ==
    [i \in 1..Len(raw_buckets) |->
        [name |-> raw_buckets[i].Name,
         creation_date |-> Digits(raw_buckets[i].CreationDate.day),
         region |-> BucketRegionOf(raw_buckets[i])]]

BucketCallback(kind, bs) == [kind |-> kind, buckets |-> bs]

\* the part of the state the bucket list does not touch
ObjectListUnchanged ==
    UNCHANGED <<current_bucket, current_prefix, objects, _all_objects, is_loading,
                _on_load_complete_callback, list_display, list_index, threads, call_queue,
                timers, tracking, screen>>

\* load_buckets(): sets the loading flag and starts the thread
load_buckets ==
    /\ bucket_is_loading' = TRUE
    /\ bucket_threads' = bucket_threads + 1
    /\ last' = Event("load_buckets", <<>>, NoSnapshot, NoRequest, 0)
    /\ UNCHANGED <<buckets, connection_error>>

\* _load_buckets_async: the store call returns (ok) or raises, and the
\* outcome is handed to app.call_later
_load_buckets_async(ok) ==
    /\ bucket_threads > 0
    /\ bucket_threads' = bucket_threads - 1
    /\ bucket_queue' = Add(bucket_queue,
                           IF ok THEN BucketCallback("loaded", _transform_buckets_data(list_buckets))
                                 ELSE BucketCallback("error", <<>>))
    /\ last' = Step
    /\ UNCHANGED <<buckets, bucket_is_loading, connection_error>>
    /\ ObjectListUnchanged

_on_buckets_loaded(bs) ==
    /\ buckets' = bs
    /\ bucket_is_loading' = FALSE
    /\ connection_error' = {FALSE}
    /\ last' = Event("_on_buckets_loaded", <<>>, NoSnapshot, NoRequest, 0)
    /\ UNCHANGED bucket_threads

\* an error handler that shows no notification
_on_buckets_error_silent ==
    /\ buckets' = <<>>
    /\ bucket_is_loading' = FALSE
    /\ connection_error' = {TRUE}
    /\ last' = Event("_on_buckets_error", <<>>, NoSnapshot, NoRequest, 0)
    /\ UNCHANGED bucket_threads

_on_buckets_error ==
    /\ buckets' = <<>>
    /\ bucket_is_loading' = FALSE
    /\ connection_error' = {TRUE}
    /\ last' = Event("_on_buckets_error", <<>>, NoSnapshot, NoRequest, 1)
    /\ UNCHANGED bucket_threads

\* the UI thread runs a callback of the bucket list
RunBucketCallback(cb) ==
    /\ bucket_queue' = Remove(bucket_queue, cb)
    /\ ObjectListUnchanged
    /\ IF cb.kind = "load_buckets" THEN load_buckets
       ELSE IF cb.kind = "loaded" THEN _on_buckets_loaded(cb.buckets)
       ELSE _on_buckets_error

\* BucketList.on_list_view_selected posts BucketSelected for an item of the
\* visible list, and MainScreen.on_bucket_list_bucket_selected passes its
\* name to ObjectList.set_bucket
on_bucket_list_bucket_selected(i) ==
    /\ ~bucket_is_loading
    /\ i \in 1..Len(buckets)
    /\ set_bucket(buckets[i].name)

\* BucketList.on_mount: call_later(self.load_buckets)
WorkerInit ==
    /\ current_bucket = <<>>
    /\ current_prefix = <<>>
    /\ objects = <<>>
    /\ _all_objects = EmptyDict
    /\ is_loading = FALSE
    /\ _on_load_complete_callback = None
    /\ list_display = TRUE
    /\ list_index = NoIndex
    /\ threads = EmptyBag
    /\ call_queue = EmptyBag
    /\ timers = 0
    /\ last = Step
    /\ tracking = FALSE
    /\ buckets = <<>>
    /\ bucket_is_loading = FALSE
    /\ bucket_threads = 0
    /\ bucket_queue = SetToBag({BucketCallback("load_buckets", <<>>)})
    /\ connection_error = {}
    /\ screen = MainScreen

HandleBucketCallback == \E cb \in BagToSet(bucket_queue) : RunBucketCallback(cb)
BucketThread == \E ok \in BOOLEAN : _load_buckets_async(ok)
SelectListedBucket ==
    /\ UNCHANGED <<tracking, bucket_vars, screen>>
    /\ \E i \in 1..Len(buckets) : on_bucket_list_bucket_selected(i)

\* both widgets, with the steps that start, run and complete their threads
WorkerNext ==
    \/ HandleBucketCallback
    \/ BucketThread
    \/ SelectListedBucket
    \/ SelectRow
    \/ Highlight
    \/ ReadBucket
    \/ Fetch
    \/ HandleCallback

WorkerSpec == WorkerInit /\ [][WorkerNext]_vars

\* both widgets with refreshes, where every thread that has started goes on
\* to its store call, every store call returns or raises, and every queued
\* callback is run
LiveNext ==
    \/ WorkerNext
    \/ Refresh

LiveSpec ==
    /\ WorkerInit
    /\ [][LiveNext]_vars
    /\ WF_vars(ReadBucket)
    /\ WF_vars(Fetch)
    /\ WF_vars(HandleCallback)
    /\ WF_vars(BucketThread)
    /\ WF_vars(HandleBucketCallback)

(***************************************************************************)
(* What the widget answers about the highlighted row.  An Optional value   *)
(* is a set: None is {}, a value v is {v}.                                 *)
(***************************************************************************)
get_focused_object ==
    IF list_index = NoIndex \/ objects = <<>> THEN {}
    ELSE IF 0 <= list_index /\ list_index < Len(objects) THEN {objects[list_index + 1]}
    ELSE {}

S3Scheme == <<"s", "3", ":", "/", "/">>

get_s3_uri_for_focused_object ==
    IF get_focused_object = {} \/ current_bucket = <<>> THEN {}
    ELSE LET focused_obj == CHOOSE o \in get_focused_object : TRUE
             full_path == IF focused_obj.is_folder
                          THEN current_prefix \o focused_obj.key \o <<Slash>>
                          ELSE current_prefix \o focused_obj.key
         IN IF focused_obj.key = PARENT_DIR_KEY THEN {}
            ELSE {S3Scheme \o current_bucket \o <<Slash>> \o full_path}

(***************************************************************************)
(* Notions the properties are stated with.                                 *)
(***************************************************************************)
Range(s) == {s[i] : i \in 1..Len(s)}

\* the rows of the store's listing for the current bucket and prefix
CurrentView ==
    _build_ui_objects(ListObjectsForPrefix(current_bucket, current_prefix), current_prefix)

\* the locations of the entries of the current view
CurrentViewUris ==
    {S3Scheme \o current_bucket \o <<Slash>> \o current_prefix \o r.key
        \o (IF r.is_folder THEN <<Slash>> ELSE <<>>) :
        r \in {v \in Range(CurrentView) : v.key # PARENT_DIR_KEY}}

\* the folder names a prefix is made of: "a/b/" is <<"a", "b">>
RECURSIVE PrefixStack(_)
PrefixStack(p) ==
    IF p = <<>> THEN <<>>
    ELSE IF ~Contains(p, Slash) THEN <<p>>
    ELSE LET head == UpToFirst(p, Slash)
         IN <<Front(head)>> \o PrefixStack(Drop(p, Len(head)))

\* the prefix of a stack of folder names: each name followed by "/"
RECURSIVE PrefixOfStack(_)
PrefixOfStack(stack) ==
    IF stack = <<>> THEN <<>>
    ELSE stack[1] \o <<Slash>> \o PrefixOfStack(Tail(stack))

\* every prefix a listing can be asked for with a non-empty answer, and some
\* with an empty one
KeyPrefixes ==
    UNION {{SubSeq(o.Key, 1, n) : n \in 0..Len(o.Key)} :
           o \in UNION {StoreContents(b) : b \in Buckets}}

\* the listings the store gives for a bucket
ListingsOf(bucket) == {ListObjectsForPrefix(bucket, p) : p \in KeyPrefixes}

\* a listing is the store's whole answer for some bucket and prefix
AllListings == UNION {ListingsOf(b) : b \in Buckets}

\* fetch threads running for a request made for the bucket and prefix of now
ThreadsForCurrent ==
    Copies({th \in BagToSet(threads) : th.request.for_current}, threads)

\* a fetch requested by the last operation and not yet started
FreshFetch == \E th \in BagToSet(threads) : th.pc = "start" /\ Newest(th.request)

(***************************************************************************)
(* Properties.                                                             *)
(***************************************************************************)
\* a prefix is empty or the "/"-terminated join of folder names that are
\* non-empty and contain no "/"
WellFormedPrefix(p) ==
    LET stack == PrefixStack(p)
    IN /\ p = PrefixOfStack(stack)
       /\ \A i \in 1..Len(stack) : stack[i] # <<>> /\ ~Contains(stack[i], Slash)

\* C1: latest request wins.  Whenever a fetched listing is applied, it is
\* the listing of the bucket and prefix current at that moment (the newest
\* request's), never that of an earlier request; so after all fetches have
\* completed the cache and the rows are those of the newest request.
C1_LatestRequestWins ==
    last.op = "_on_objects_loaded" =>
        /\ _all_objects = ListObjectsForPrefix(current_bucket, current_prefix)
        /\ objects = CurrentView

C3_SupersededFailureSilent ==
    (last.op = "_on_objects_error" /\ ~Newest(last.request)) =>
        /\ last.notified = 0
        /\ objects = last.before.objects
        /\ _all_objects = last.before.all_objects
        /\ is_loading = last.before.is_loading

\* C4: at most one fetch is in flight for the current bucket and prefix.
C4_OneFetchPerContext == ThreadsForCurrent <= 1

\* C5: the highlighted row, and the location answered for it, is an entry of
\* the current view of the current bucket and prefix.
C5_FocusedRowInCurrentView ==
    /\ get_focused_object \subseteq Range(CurrentView)
    /\ get_s3_uri_for_focused_object \subseteq CurrentViewUris

\* C6: set_bucket(name) leads to bucket name with an empty prefix and starts
\* a fresh fetch, whatever the state it is called in.
C6_SelectBucketResets ==
    last.op = "set_bucket" =>
        /\ current_bucket = last.arg
        /\ current_prefix = <<>>
        /\ is_loading
        /\ FreshFetch

\* C7: rows on display, and the location answered for the highlighted row,
\* come from a listing of the current bucket.
C7_NoCrossBucketListing ==
    (/\ current_bucket # <<>>
     /\ DOMAIN _all_objects # {}
     /\ \/ list_display /\ \E r \in Range(objects) : r.key # PARENT_DIR_KEY
        \/ get_s3_uri_for_focused_object # {})
    => _all_objects \in ListingsOf(current_bucket)

\* C8: entering a folder row appends its name and "/" to the prefix and
\* leaves the bucket unchanged.
C8_EnterFolderPushes ==
    last.op = "navigate_into_folder" =>
        /\ current_prefix = last.before.prefix \o last.arg \o <<Slash>>
        /\ current_bucket = last.before.bucket

\* a folder was entered from inside another folder
C8_Witness ==
    /\ last.op = "navigate_into_folder"
    /\ last.before.prefix # <<>>
    /\ last.arg # <<>>
    /\ current_prefix # last.before.prefix

\* C9: going up from the prefix of a stack s1..sn (n >= 1) leads to the
\* prefix of s1..s(n-1) and leaves the bucket unchanged.
C9_GoUpPops ==
    LET stack == PrefixStack(last.before.prefix)
    IN (/\ last.op = "navigate_up"
        /\ last.before.prefix # <<>>
        /\ WellFormedPrefix(last.before.prefix))
       => /\ current_prefix = PrefixOfStack(Front(stack))
          /\ current_bucket = last.before.bucket

\* the widget went up from a folder inside a folder
C9_Witness ==
    /\ last.op = "navigate_up"
    /\ Len(PrefixStack(last.before.prefix)) >= 2
    /\ WellFormedPrefix(last.before.prefix)
    /\ current_prefix # <<>>

\* C10: going up at the empty prefix changes nothing: bucket, prefix, cache,
\* rows and loading flag stay, and no fetch is started.
C10_GoUpAtRootNoOp ==
    (last.op = "navigate_up" /\ last.before.prefix = <<>>) =>
        /\ current_bucket = last.before.bucket
        /\ current_prefix = last.before.prefix
        /\ _all_objects = last.before.all_objects
        /\ objects = last.before.objects
        /\ is_loading = last.before.is_loading
        /\ InFlight = last.before.in_flight

\* the ".." row was selected while the prefix was empty
C10_Witness ==
    /\ last.op = "navigate_up"
    /\ last.before.prefix = <<>>
    /\ last.before.bucket # <<>>
    /\ current_prefix = <<>>

\* C12: the current prefix is always empty or a "/"-terminated join of
\* non-empty folder names without "/": it never starts with "/" and never
\* contains "//".
C12_PrefixWellFormed == WellFormedPrefix(current_prefix)

C13_ErrorKeepsNavigation ==
    last.op = "_on_objects_error" =>
        /\ current_bucket = last.before.bucket
        /\ current_prefix = last.before.prefix

\* a fetch failed while the widget was inside a folder
C13_Witness ==
    /\ last.op = "_on_objects_error"
    /\ last.before.bucket # <<>>
    /\ last.before.prefix # <<>>
    /\ current_prefix # <<>>

(***************************************************************************)
(* The view against the records it is built from.                          *)
(***************************************************************************)
\* the indices of the FILE rows and of the FOLDER rows on display; at a
\* non-empty prefix row 1 is the parent link
FileRowIndices == {i \in 1..Len(objects) : ~objects[i].is_folder}
FolderRowIndices ==
    {i \in 1..Len(objects) : objects[i].is_folder /\ (current_prefix = <<>> \/ i > 1)}

\* the listed records that make a FILE row at the current prefix
FileRecordIndices ==
    LET files == DictGet(_all_objects, "files")
    IN {j \in 1..Len(files) :
          /\ StartsWith(files[j].Key, current_prefix)
          /\ Drop(files[j].Key, Len(current_prefix)) # <<>>
          /\ ~Contains(Drop(files[j].Key, Len(current_prefix)), Slash)}

InFolders ==
    {o \in StoreContents(current_bucket) :
        /\ StartsWith(o.Key, current_prefix)
        /\ Contains(Drop(o.Key, Len(current_prefix)), Slash)}
FolderOf(o) == Front(UpToFirst(Drop(o.Key, Len(current_prefix)), Slash))
Folders == {FolderOf(o) : o \in InFolders}
Contributors(seg) == {o \in InFolders : FolderOf(o) = seg}

RECURSIVE SumSizes(_)
SumSizes(S) ==
    IF S = {} THEN 0
    ELSE LET o == CHOOSE x \in S : TRUE IN o.Size + SumSizes(S \ {o})

LaterOrEqual(t, u) == t.min > u.min \/ (t.min = u.min /\ t.sec >= u.sec)
MaxModified(S) ==
    LET o == CHOOSE x \in S : \A y \in S : LaterOrEqual(x.LastModified, y.LastModified)
    IN o.LastModified

\* the view was built from the store's listing for the current bucket and prefix
ViewOfCurrentListing ==
    /\ last.op = "_on_objects_loaded"
    /\ _all_objects = ListObjectsForPrefix(current_bucket, current_prefix)

\* one FOLDER row for the folder seg, and no FILE row for an object in it
OneFolderRow(seg) ==
    /\ Cardinality({i \in FolderRowIndices : objects[i].key = seg}) = 1
    /\ \A o \in Contributors(seg), i \in FileRowIndices :
          objects[i].key # Drop(o.Key, Len(current_prefix))

Find(s, c) ==
    IF Contains(s, c)
    THEN CHOOSE k \in 1..Len(s) : s[k] = c /\ \A j \in 1..(k - 1) : s[j] # c
    ELSE 0

\* the position of the first character of s that is in cs, Len(s) + 1 when
\* there is none
FindAny(s, cs) ==
    IF \E k \in 1..Len(s) : s[k] \in cs
    THEN CHOOSE k \in 1..Len(s) : s[k] \in cs /\ \A j \in 1..(k - 1) : s[j] \notin cs
    ELSE Len(s) + 1

\* the letters, and the characters of a URL scheme, among those the model uses
Letters == {"a", "b", "c", "f", "g", "s", "x", "y", "G"}
SchemeChars == Letters \cup {"3", "."}

\* urllib.parse.urlparse(url), for a scheme without parameters: the scheme
\* up to the first ":", the netloc after "//" up to the first of "/?#",
\* then the fragment after "#" and the query after "?" are cut off the path
urlparse(url) ==
    LET colon == Find(url, ":")
        has_scheme == /\ colon > 1
                      /\ url[1] \in Letters
                      /\ \A j \in 1..(colon - 1) : url[j] \in SchemeChars
        scheme == IF has_scheme THEN Lower(SubSeq(url, 1, colon - 1)) ELSE <<>>
        rest == IF has_scheme THEN Drop(url, colon) ELSE url
        has_netloc == Len(rest) >= 2 /\ SubSeq(rest, 1, 2) = <<Slash, Slash>>
        after == IF has_netloc THEN Drop(rest, 2) ELSE rest
        delim == FindAny(after, {Slash, "?", "#"})
        netloc == IF has_netloc THEN SubSeq(after, 1, delim - 1) ELSE <<>>
        tail == IF has_netloc THEN Drop(after, delim - 1) ELSE after
        hash == Find(tail, "#")
        no_fragment == IF hash > 0 THEN SubSeq(tail, 1, hash - 1) ELSE tail
        fragment == IF hash > 0 THEN Drop(tail, hash) ELSE <<>>
        mark == Find(no_fragment, "?")
        path == IF mark > 0 THEN SubSeq(no_fragment, 1, mark - 1) ELSE no_fragment
        query == IF mark > 0 THEN Drop(no_fragment, mark) ELSE <<>>
    IN [scheme |-> scheme, netloc |-> netloc, path |-> path, query |-> query,
        fragment |-> fragment]

build_s3_uri(bucket_name, object_key) ==
    IF object_key # <<>>
    THEN S3Scheme \o bucket_name \o <<Slash>> \o object_key
    ELSE S3Scheme \o bucket_name

parse_s3_uri(s3_uri) ==
    LET s3_res == urlparse(s3_uri)
    IN [bucket |-> s3_res.netloc, file_key |-> Drop(s3_res.path, 1)]

resolve_s3_location(s3_path) ==
    LET s3_res == urlparse(s3_path)
    IN [bucket |-> s3_res.netloc, file_key |-> Drop(s3_res.path, 1)]

(***************************************************************************)
(* The functions on their own: the view built from the listing of any set  *)
(* of stored objects, the answers for any index of the list view, and the  *)
(* URI functions on any string.  The widget starts inside a bucket, at the *)
(* root or in a folder, with nothing loaded.                               *)
(***************************************************************************)
ViewRecords ==
    { S3Object(<<"a", "/">>, 0, [min |-> 2, sec |-> 0]),
      S3Object(<<"a", "/", "f">>, 10, [min |-> 3, sec |-> 7]),
      S3Object(<<"a", ".", "/", "f">>, 20, [min |-> 5, sec |-> 0]),
      S3Object(<<".", ".", "/", "f">>, 5, [min |-> 1, sec |-> 59]),
      S3Object(<<"f">>, 5, [min |-> 1, sec |-> 59]),
      S3Object(<<"g">>, 2048, [min |-> 6, sec |-> 2]) }

ViewPrefixes == {<<>>, <<"a", "/">>}

UriKeys == {<<>>, <<"f">>, <<"a", "/", "f">>, <<"a", "?", "f">>, <<"a", "#", "f">>}

UriStrings ==
    {build_s3_uri(b, k) : b \in Buckets, k \in UriKeys}
    \cup {<<"s", "3", ":", "/", "/", "/", "f">>, <<"/", "f">>, <<"f">>,
          <<"s", "3", ":", "/", "/", "x", "/">>}

\* history of a function call: its name, its argument and what it returned
Call(op, arg, result) == [op |-> op, arg |-> arg, result |-> result]

ViewInit ==
    /\ current_bucket = Bx
    /\ current_prefix \in ViewPrefixes
    /\ objects = <<>>
    /\ _all_objects = EmptyDict
    /\ is_loading = FALSE
    /\ _on_load_complete_callback = None
    /\ list_display = TRUE
    /\ list_index = NoIndex
    /\ threads = EmptyBag
    /\ call_queue = EmptyBag
    /\ timers = 0
    /\ last = Step
    /\ tracking = FALSE
    /\ buckets = <<>>
    /\ bucket_is_loading = FALSE
    /\ bucket_threads = 0
    /\ bucket_queue = EmptyBag
    /\ connection_error = {}
    /\ screen = MainScreen

\* the listing of some stored objects under the current prefix arrives
ViewLoaded ==
    \E contents \in SUBSET ViewRecords :
        /\ OutsideUnchanged
        /\ _on_objects_loaded([kind |-> "loaded",
                               objects |-> ListingOf(contents, current_prefix),
                               request |-> NewRequest("navigation", RequestedPair)])
        /\ UNCHANGED <<current_bucket, current_prefix, threads, call_queue>>

\* the list view's index is set, in or out of the range of the rows
SetIndex ==
    \E i \in {NoIndex} \cup 0..MaxIndex :
        /\ list_index # i
        /\ list_index' = i
        /\ last' = Step
        /\ UNCHANGED <<current_bucket, current_prefix, _all_objects, objects, is_loading,
                       _on_load_complete_callback, list_display, threads, call_queue,
                       timers, tracking, bucket_vars, screen>>

ViewFrame ==
    UNCHANGED <<current_bucket, current_prefix, _all_objects, objects, is_loading,
                _on_load_complete_callback, list_display, list_index, threads,
                call_queue, timers, tracking, bucket_vars, screen>>

ParseUri ==
    \E u \in UriStrings :
        /\ last' = Call("parse_s3_uri", u, parse_s3_uri(u))
        /\ ViewFrame

ResolveUri ==
    \E u \in UriStrings :
        /\ last' = Call("resolve_s3_location", u, resolve_s3_location(u))
        /\ ViewFrame

\* a URI is built and parsed back
BuildAndParseUri ==
    \E b \in Buckets, k \in UriKeys :
        /\ last' = Call("build_s3_uri", [bucket |-> b, key |-> k],
                        parse_s3_uri(build_s3_uri(b, k)))
        /\ ViewFrame

ViewNext ==
    \/ ViewLoaded
    \/ SetIndex
    \/ ParseUri
    \/ ResolveUri
    \/ BuildAndParseUri

ViewSpec == ViewInit /\ [][ViewNext]_vars

\* C14: the view built for a non-empty prefix starts with the parent link,
\* and the view built for the empty prefix has no row that selection treats
\* as the parent link.
C14_ParentLink ==
    last.op = "_on_objects_loaded" =>
        IF current_prefix # <<>>
        THEN objects # <<>> /\ objects[1] = _create_parent_dir_object
        ELSE \A i \in 1..Len(objects) :
                ~(objects[i].is_folder /\ objects[i].key = PARENT_DIR_KEY)

\* C17: the view lists the parent link first, then the FOLDER rows, then the
\* FILE rows, and the names of each group ascend in byte order.
C17_RowOrder ==
    last.op = "_on_objects_loaded" =>
        /\ current_prefix # <<>> => objects # <<>> /\ objects[1].key = PARENT_DIR_KEY
        /\ \A i \in FolderRowIndices, j \in FileRowIndices : i < j
        /\ \A i, j \in FolderRowIndices : i < j => StrLess(objects[i].key, objects[j].key)
        /\ \A i, j \in FileRowIndices : i < j => StrLess(objects[i].key, objects[j].key)

\* C18: for the parent link and for an absent or out-of-range index no
\* location is answered; for a FOLDER row the location is the current
\* bucket with key prefix + name + "/", for a FILE row prefix + name.  The
\* rows are those built for the current prefix, so the parent link is the
\* first row of a non-empty prefix and no other row.
C18_RowLocation ==
    LET i == list_index + 1
    IN IF list_index = NoIndex \/ i > Len(objects) \/ (current_prefix # <<>> /\ i = 1)
       THEN get_s3_uri_for_focused_object = {}
       ELSE get_s3_uri_for_focused_object =
                {S3Scheme \o current_bucket \o <<Slash>> \o current_prefix \o objects[i].key
                    \o (IF objects[i].is_folder THEN <<Slash>> ELSE <<>>)}

\* C19: parsing the URI built from a bucket and a key gives back that
\* bucket and that key.
C19_UriRoundTrip ==
    last.op = "build_s3_uri" =>
        last.result = [bucket |-> last.arg.bucket, file_key |-> last.arg.key]

\* C20: no location a URI is parsed to has an empty bucket and a non-empty
\* key.
C20_NoKeyWithoutBucket ==
    last.op \in {"parse_s3_uri", "resolve_s3_location"} =>
        ~(last.result.bucket = <<>> /\ last.result.file_key # <<>>)

(***************************************************************************)
(* The fetch thread and the hand-off of its result.                        *)
(***************************************************************************)
\* C21: a fetch is for the bucket and prefix its request was made for: a
\* thread that has read the bucket holds the requested bucket, and a listing
\* handed to the UI thread is the store's listing of the requested bucket
\* and prefix.
C21_FetchIsForRequestedPair ==
    tracking =>
        /\ \A th \in BagToSet(threads) :
              th.pc = "bucket" => th.bucket_name = th.request.made_for[1]
        /\ \A cb \in BagToSet(call_queue) :
              cb.kind = "loaded" =>
                  cb.objects = ListObjectsForPrefix(cb.request.made_for[1],
                                                    cb.request.made_for[2])

\* a step of a background thread
WorkerStep == ReadBucket \/ Fetch \/ BucketThread

\* C22: a step of a background thread writes neither the cached listing, nor
\* the rows, nor the loading flag of the object list or of the bucket list
\* (nor bucket and prefix); a thread that ends hands exactly one callback,
\* loaded or error, to the UI thread, and a thread that goes on hands none.
C22_WorkersOnlyEnqueue ==
    [][WorkerStep =>
          /\ UNCHANGED <<_all_objects, objects, is_loading, current_bucket, current_prefix,
                         buckets, bucket_is_loading>>
          /\ ReadBucket => UNCHANGED <<call_queue, bucket_queue>>
          /\ Fetch =>
                /\ UNCHANGED bucket_queue
                /\ BagCardinality(threads') = BagCardinality(threads) - 1
                /\ \E cb \in BagToSet(call_queue') :
                      /\ cb.kind \in {"loaded", "error"}
                      /\ call_queue' = Add(call_queue, cb)
          /\ BucketThread =>
                /\ UNCHANGED call_queue
                /\ \E cb \in BagToSet(bucket_queue') :
                      /\ cb.kind \in {"loaded", "error"}
                      /\ bucket_queue' = Add(bucket_queue, cb)]_vars

\* the bucket list's thread has handed over its listing, the UI thread has
\* applied it, and a thread of the object list has handed over a listing
C22_Witness ==
    /\ buckets # <<>>
    /\ \E cb \in BagToSet(call_queue) : cb.kind = "loaded"
    /\ \E th \in BagToSet(threads) : th.pc = "bucket"

(***************************************************************************)
(* The gateway's listing of all objects (S3.list_objects, reached through  *)
(* S3ListService.list_s3_objects).  The store's paginator answers a        *)
(* listing in pages of PageSize objects in key order; a listing without    *)
(* objects is one page without "Contents".                                 *)
(***************************************************************************)
PageSize == 2

\* the objects of a bucket under a prefix, in key order
ObjectsUnder(bucket, prefix) ==
    LET under == {o \in StoreContents(bucket) : StartsWith(o.Key, prefix)}
        keys == SortedSeq({o.Key : o \in under})
    IN [i \in 1..Len(keys) |-> CHOOSE o \in under : o.Key = keys[i]]

RECURSIVE Pages(_)
Pages(objs) ==
    IF Len(objs) <= PageSize THEN <<[KeyCount |-> Len(objs), Contents |-> objs]>>
    ELSE <<[KeyCount |-> PageSize, Contents |-> SubSeq(objs, 1, PageSize)]>>
         \o Pages(Drop(objs, PageSize))

\* client.get_paginator("list_objects_v2").paginate(Bucket=..., Prefix=...)
paginate(Bucket, Prefix) ==
    IF ObjectsUnder(Bucket, Prefix) = <<>> THEN <<[KeyCount |-> 0]>>
    ELSE Pages(ObjectsUnder(Bucket, Prefix))

\* a loop that stops after the first page
DrainFirstPage(response_iterator, objs) ==
    IF response_iterator = <<>> THEN objs
    ELSE IF "Contents" \in DOMAIN response_iterator[1]
         THEN objs \o response_iterator[1].Contents
         ELSE objs

\* for response in response_iterator: objects.extend(response["Contents"])
RECURSIVE Drain(_, _)
Drain(response_iterator, objs) ==
    IF response_iterator = <<>> THEN objs
    ELSE Drain(Tail(response_iterator),
               IF "Contents" \in DOMAIN response_iterator[1]
               THEN objs \o response_iterator[1].Contents
               ELSE objs)

\* an Optional string is a set; x or ""
OrEmpty(opt) == IF opt = {} THEN <<>> ELSE CHOOSE v \in opt : TRUE

Returned(value) == [raised |-> "", value |-> value]
Raised(exception) == [raised |-> exception, value |-> <<>>]

\* S3.list_objects under its decorators, called with bucket_name and prefix:
\* resolve_s3_uri raises ValueError when neither a URI nor a bucket is
\* given and passes prefix or "" (which Prefix=prefix or "" leaves as it is)
list_objects(bucket_name, prefix) ==
    IF bucket_name = <<>> THEN Raised("ValueError")
    ELSE Returned(Drain(paginate(bucket_name, OrEmpty(prefix)), <<>>))

\* S3ListService.list_s3_objects(bucket_name, prefix)
list_s3_objects(bucket_name, prefix) == list_objects(bucket_name, prefix)

(***************************************************************************)
(* Calls of the functions on their own: the widget is at rest and the      *)
(* history records each call with its argument and its result.             *)
(***************************************************************************)
ListBuckets == Buckets \cup {Bz, <<>>}
ListPrefixes == {{}} \cup {{p} : p \in KeyPrefixes}

ListObjectsCall ==
    \E b \in ListBuckets, p \in ListPrefixes :
        /\ last' = Call("list_s3_objects", [bucket |-> b, prefix |-> p],
                        list_s3_objects(b, p))
        /\ ViewFrame

\* a derivation that leaves the widget at the root
_build_ui_objects_call_moving(self) ==
    [returned |-> _build_ui_objects(self.s3_response, self.current_prefix),
     self |-> [self EXCEPT !.current_prefix = <<>>]]

\* _build_ui_objects(s3_response) as a call on the widget: what it returns
\* and the widget and the response it leaves
_build_ui_objects_call(self) ==
    [returned |-> _build_ui_objects(self.s3_response, self.current_prefix), self |-> self]

\* two calls, one after the other, on the same response
BuildCall ==
    \E s3_response \in AllListings \cup {EmptyDict}, prefix \in KeyPrefixes :
        LET self == [current_prefix |-> prefix, s3_response |-> s3_response]
            first == _build_ui_objects_call(self)
            second == _build_ui_objects_call(first.self)
        IN /\ last' = Call("_build_ui_objects", self,
                           [first |-> first.returned, second |-> second.returned,
                            self |-> second.self])
           /\ ViewFrame

\* config.py
ALLOWED_THEMES == <<"Github Dark", "Dracula", "Solarized", "Sepia">>

\* the fields of the dataclass S3Config and their defaults
S3ConfigFields == {"profile_name", "theme", "enable_pagination"}
S3ConfigDefaults ==
    [profile_name |-> None, theme |-> "Github Dark", enable_pagination |-> TRUE]

\* S3Config(**kwargs): TypeError for a keyword that is no field, then
\* __post_init__ and _validate
S3Config(kwargs) ==
    IF ~(DOMAIN kwargs \subseteq S3ConfigFields) THEN Raised("TypeError")
    ELSE LET self == [f \in S3ConfigFields |->
                         IF f \in DOMAIN kwargs THEN kwargs[f] ELSE S3ConfigDefaults[f]]
         IN IF self.theme \notin Range(ALLOWED_THEMES) THEN Raised("ValueError")
            ELSE Returned(self)

provided(cli_args) == {key \in DOMAIN cli_args : cli_args[key] # None}

merge_config_with_cli_args(config, cli_args) ==
    LET merged_config ==
            [key \in S3ConfigFields \cup provided(cli_args) |->
                IF key \in provided(cli_args) THEN cli_args[key] ELSE config[key]]
    IN S3Config(merged_config)

\* the configurations load_config returns
LoadedConfigs ==
    [profile_name : {None, "prod"}, theme : {"Github Dark", "Sepia"},
     enable_pagination : BOOLEAN]

\* the keyword arguments main passes: fields of S3Config (profile_name,
\* theme) and others (endpoint_url and those like it)
CliArgs ==
    [profile_name : {None, "dev"}, theme : {None, "Dracula", "Neon"},
     endpoint_url : {None, "http://localhost:4566"}]

MergeCall ==
    \E config \in LoadedConfigs, cli_args \in CliArgs :
        /\ last' = Call("merge_config_with_cli_args",
                        [config |-> config, cli_args |-> cli_args],
                        merge_config_with_cli_args(config, cli_args))
        /\ ViewFrame

CallNext ==
    \/ ListObjectsCall
    \/ BuildCall
    \/ MergeCall

CallSpec == Init /\ [][CallNext]_vars

\* the Contents of the pages, one page after the other
RECURSIVE ConcatContents(_)
ConcatContents(pages) ==
    IF pages = <<>> THEN <<>>
    ELSE ConcatContents(Front(pages))
         \o (IF "Contents" \in DOMAIN pages[Len(pages)] THEN pages[Len(pages)].Contents
             ELSE <<>>)

\* C23: a listing of a bucket returns the Contents of every page of the
\* store's answer for that bucket and prefix, in page order: every object
\* of the bucket under the prefix once, in key order.
C23_ListingDrainsAllPages ==
    (last.op = "list_s3_objects" /\ last.arg.bucket # <<>>) =>
        LET b == last.arg.bucket
            p == OrEmpty(last.arg.prefix)
            value == last.result.value
        IN /\ last.result.raised = ""
           /\ value = ConcatContents(paginate(b, p))
           /\ Range(value) = {o \in StoreContents(b) : StartsWith(o.Key, p)}
           /\ \A i, j \in 1..Len(value) : i < j => StrLess(value[i].Key, value[j].Key)

\* a listing that takes more than one page
C23_Witness ==
    /\ last.op = "list_s3_objects"
    /\ last.result.raised = ""
    /\ Len(last.result.value) > PageSize

(***************************************************************************)
(* Failing fetches.                                                        *)
(***************************************************************************)
CompleteListing(listing) == listing \in AllListings

\* the rows that can be built from a cached listing, under any prefix
RowsOfListing ==
    [listing \in AllListings \cup {EmptyDict} |->
        {FilteredObjects(listing, p) : p \in KeyPrefixes}]

MaxFocusCalls == 1

Owners == {"ObjectList", "MainScreen"}

NoModal == screen.modal = "none"
AppRunning == screen.modal # "crashed"

ObjectListFrame ==
    UNCHANGED <<current_bucket, current_prefix, objects, _all_objects, is_loading,
                _on_load_complete_callback, list_display, list_index, threads, call_queue,
                timers>>

\* get_current_s3_location
get_current_s3_location ==
    IF current_bucket = <<>> THEN {}
    ELSE IF current_prefix # <<>>
         THEN {S3Scheme \o current_bucket \o <<Slash>> \o current_prefix}
         ELSE {S3Scheme \o current_bucket \o <<Slash>>}

\* action_download of the object list and of the main screen
action_download(owner) ==
    LET s3_uri == get_s3_uri_for_focused_object
        focused_obj == get_focused_object
    IN /\ NoModal
       /\ ObjectListFrame
       /\ UNCHANGED <<tracking, bucket_vars>>
       /\ IF s3_uri = {} \/ focused_obj = {}
          THEN /\ last' = Event("action_download", {}, Snapshot, NoRequest, 1)
               /\ UNCHANGED screen
          ELSE LET is_folder == (CHOOSE o \in focused_obj : TRUE).is_folder
                   uri == CHOOSE u \in s3_uri : TRUE
               IN /\ last' = Event("action_download", s3_uri, Snapshot, NoRequest, 0)
                  /\ screen' = Screen("download", uri, is_folder, owner, screen.focus_calls)

\* a result callback that refreshes whatever the modal reports
on_download_result_always(result) ==
    LET calls == screen.focus_calls + (IF screen.owner = "ObjectList" THEN 1 ELSE 0)
    IN /\ calls <= MaxFocusCalls
       /\ last' = Event("on_download_result", result, Snapshot, NoRequest, 0)
       /\ screen' = Screen("none", <<>>, FALSE, "", calls)
       /\ UNCHANGED <<tracking, bucket_vars>>
       /\ refresh_objects_from_callback

\* dismiss(result): the modal is popped and on_download_result(result) runs;
\* the callback of the object list also queues focus_list
on_download_result(result) ==
    LET calls == screen.focus_calls + (IF screen.owner = "ObjectList" THEN 1 ELSE 0)
    IN /\ calls <= MaxFocusCalls
       /\ last' = Event("on_download_result", result, Snapshot, NoRequest, 0)
       /\ screen' = Screen("none", <<>>, FALSE, "", calls)
       /\ UNCHANGED <<tracking, bucket_vars>>
       /\ IF result THEN refresh_objects_from_callback ELSE ObjectListFrame

\* DownloadModal.action_cancel
action_cancel ==
    /\ screen.modal = "download"
    /\ on_download_result(FALSE)

DownloadOutcomes == {"no_destination", "failed", "downloaded"}

\* DownloadModal.action_download: no destination entered, or the download
\* raised, or it succeeded
DownloadModal_action_download(outcome) ==
    /\ screen.modal = "download"
    /\ IF outcome = "downloaded"
       THEN on_download_result(TRUE)
       ELSE /\ last' = Event("DownloadModal.action_download", outcome, Snapshot, NoRequest, 1)
            /\ ObjectListFrame
            /\ UNCHANGED <<tracking, bucket_vars, screen>>

\* UploadModal.__init__(self, s3_destination) and DeleteModal.__init__(self,
\* s3_path) called with two arguments: TypeError, which nothing catches
Crashed(owner) == Screen("crashed", <<>>, FALSE, owner, 0)

\* action_upload of the object list and of the main screen
action_upload(owner) ==
    LET upload_destination == get_current_s3_location
    IN /\ NoModal
       /\ ObjectListFrame
       /\ UNCHANGED <<tracking, bucket_vars>>
       /\ IF upload_destination = {}
          THEN /\ last' = Event("action_upload", upload_destination, Snapshot, NoRequest, 1)
               /\ UNCHANGED screen
          ELSE /\ last' = Event("action_upload", upload_destination, Snapshot, NoRequest, 0)
               /\ screen' = Crashed(owner)

\* action_delete_item of the object list and of the main screen
action_delete_item(owner) ==
    LET s3_uri == get_s3_uri_for_focused_object
        focused_obj == get_focused_object
    IN /\ NoModal
       /\ ObjectListFrame
       /\ UNCHANGED <<tracking, bucket_vars>>
       /\ IF s3_uri = {} \/ focused_obj = {}
          THEN /\ last' = Event("action_delete_item", {}, Snapshot, NoRequest, 1)
               /\ UNCHANGED screen
          ELSE /\ last' = Event("action_delete_item", s3_uri, Snapshot, NoRequest, 0)
               /\ screen' = Crashed(owner)

\* focus_list, queued by call_later
focus_list ==
    /\ AppRunning
    /\ screen.focus_calls > 0
    /\ screen' = [screen EXCEPT !.focus_calls = @ - 1]
    /\ list_index' = IF Len(objects) > 0 THEN 0 ELSE list_index
    /\ last' = Step
    /\ UNCHANGED <<current_bucket, current_prefix, objects, _all_objects, is_loading,
                   _on_load_complete_callback, list_display, threads, call_queue, timers,
                   tracking, bucket_vars>>

UserSelectBucket == NoModal /\ SelectBucket
UserSelectRow == NoModal /\ SelectRow
UserHighlight == NoModal /\ Highlight
RunningReadBucket == AppRunning /\ ReadBucket
RunningFetch == AppRunning /\ Fetch
RunningHandleCallback == AppRunning /\ HandleCallback
Download == \E owner \in Owners : action_download(owner)
Upload == \E owner \in Owners : action_upload(owner)
DeleteItem == \E owner \in Owners : action_delete_item(owner)
CancelDownload == action_cancel
RunDownload == \E outcome \in DownloadOutcomes : DownloadModal_action_download(outcome)
FocusList == focus_list

ModalNext ==
    \/ UserSelectBucket
    \/ UserSelectRow
    \/ UserHighlight
    \/ RunningReadBucket
    \/ RunningFetch
    \/ RunningHandleCallback
    \/ Download
    \/ Upload
    \/ DeleteItem
    \/ CancelDownload
    \/ RunDownload
    \/ FocusList

ModalSpec == Init /\ [][ModalNext]_vars

\* navigation and cache are those the operation started from, and no fetch
\* was issued
Untouched ==
    /\ current_bucket = last.before.bucket
    /\ current_prefix = last.before.prefix
    /\ _all_objects = last.before.all_objects
    /\ objects = last.before.objects
    /\ InFlight = last.before.in_flight

\* C25: a download, upload or delete that failed or was cancelled leaves the
\* bucket, the prefix, the cache and the rows as they were and issues no
\* fetch, and a failure shows an error notification.
C25_FailureLeavesStateUntouched ==
    LET cancelled == last.op = "on_download_result" /\ ~last.arg
        failed == \/ last.op = "DownloadModal.action_download"
                  \/ last.op \in {"action_upload", "action_delete_item"} /\ last.arg # {}
    IN (cancelled \/ failed) =>
          /\ Untouched
          /\ failed => last.notified = 1 /\ AppRunning

\* C26: action_upload shows an error notification exactly when no bucket is
\* selected; otherwise it opens the upload modal for "s3://" + bucket + "/" +
\* prefix, which ends with "/", whatever row is highlighted.
C26_UploadDestination ==
    last.op = "action_upload" =>
        IF last.before.bucket = <<>>
        THEN last.notified = 1 /\ NoModal
        ELSE /\ last.notified = 0
             /\ last.arg = {S3Scheme \o last.before.bucket \o <<Slash>> \o last.before.prefix}
             /\ \A d \in last.arg : d[Len(d)] = Slash
             /\ screen.modal = "upload"
             /\ screen.s3_path \in last.arg

\* C29: when a modal closes, the object list is refreshed exactly when the
\* modal's result is True: one fetch is issued for the current bucket and
\* prefix; with another result no fetch is issued and cache and rows are
\* those shown before.
C29_RefreshIffSuccess ==
    last.op = "on_download_result" =>
        /\ NoModal
        /\ current_bucket = last.before.bucket
        /\ current_prefix = last.before.prefix
        /\ _all_objects = last.before.all_objects
        /\ objects = last.before.objects
        /\ IF last.arg
           THEN /\ InFlight = last.before.in_flight + 1
                /\ is_loading
                /\ \E th \in BagToSet(threads) :
                      th.pc = "start" /\ th.request.origin = "refresh_objects"
           ELSE /\ InFlight = last.before.in_flight
                /\ is_loading = last.before.is_loading

\* a download succeeded while rows were shown, and the refresh was issued
C29_Witness ==
    /\ last.op = "on_download_result"
    /\ last.arg
    /\ last.before.objects # <<>>
    /\ FreshFetch

C28_CliPriority ==
    last.op = "merge_config_with_cli_args" =>
        LET config == last.arg.config
            cli_args == last.arg.cli_args
            merged(f) == IF f \in provided(cli_args) THEN cli_args[f] ELSE config[f]
        IN IF merged("theme") \in Range(ALLOWED_THEMES)
           THEN /\ last.result.raised = ""
                /\ \A f \in S3ConfigFields : last.result.value[f] = merged(f)
           ELSE last.result.raised = "ValueError"

\* C30: a completion handler invokes the on_complete callback only when the
\* fetch it handles is the one started by the refresh_objects call that
\* passed the callback, the latest request made.
C30_CallbackAfterOwnFetch ==
    [][(/\ _on_load_complete_callback # None
        /\ last'.op \in {"_on_objects_loaded", "_on_objects_error"})
          => last'.request.origin = "refresh_objects"]_vars

\* C31: while a fetch of the object list has been requested and its
\* completion has not been handled, is_loading is true.
C31_LoadingWhileInFlight == InFlight > 0 => is_loading

\* a request for a listing: a bucket or a row is selected, or a refresh
RequestStep == SelectListedBucket \/ SelectRow \/ Refresh

\* nothing is loading and nothing is outstanding, in either widget
AtRest ==
    /\ ~is_loading
    /\ InFlight = 0
    /\ ~bucket_is_loading
    /\ bucket_threads = 0
    /\ bucket_queue = EmptyBag

\* C32: when the requests stop, both widgets come to rest: is_loading is
\* false in the object list and in the bucket list, and no thread is running
\* and no callback queued.
C32_LoadingEnds == <>[][~RequestStep]_vars => <>[]AtRest

\* the widgets at rest after a refresh that overlapped another fetch
C32_Witness ==
    /\ AtRest
    /\ buckets # <<>>
    /\ last.op \in {"_on_objects_loaded", "_on_objects_error"}
    /\ last.request.origin = "superseded"

\* C33: whenever nothing is loading and the widget is inside a folder, rows
\* are shown and the first of them is the parent link "..".
C33_ParentLinkShown ==
    (~is_loading /\ current_prefix # <<>>) =>
        /\ objects # <<>>
        /\ objects[1].key = PARENT_DIR_KEY

\* C34: while the object list is loading, no row is the focused object and
\* no location is given for it.
C34_NoTargetWhileLoading ==
    is_loading => get_focused_object = {} /\ get_s3_uri_for_focused_object = {}

\* C35: when a folder row of the view is entered from prefix p, the prefix
\* that going up moves to from there is exactly p.
C35_EnterThenUpRestores ==
    [][last'.op = "navigate_into_folder" => ParentPrefix(current_prefix') = current_prefix]_vars

\* the key of a location "s3://" + bucket + "/" + key
KeyOfUri(uri, bucket) == Drop(uri, Len(S3Scheme) + Len(bucket) + 1)

\* C36: the location given for the focused row has a key that is the
\* current prefix followed by the row's non-empty name, so it is neither the
\* bucket root nor the current prefix, and for a folder row it ends with "/".
C36_TargetBelowCurrent ==
    \A uri \in get_s3_uri_for_focused_object :
        LET row == CHOOSE o \in get_focused_object : TRUE
            key == KeyOfUri(uri, current_bucket)
        IN /\ uri = S3Scheme \o current_bucket \o <<Slash>> \o key
           /\ row.key # <<>>
           /\ key = current_prefix \o row.key \o (IF row.is_folder THEN <<Slash>> ELSE <<>>)
           /\ key # <<>>
           /\ key # current_prefix
           /\ row.is_folder => key[Len(key)] = Slash

\* a folder row inside a folder is focused and has a location
C36_Witness ==
    /\ get_s3_uri_for_focused_object # {}
    /\ current_prefix # <<>>
    /\ \E o \in get_focused_object : o.is_folder

\* C37: the location given for the focused row ends with "/" exactly when
\* the row is a folder.
C37_SlashIffFolder ==
    \A uri \in get_s3_uri_for_focused_object :
        (uri[Len(uri)] = Slash) <=> (CHOOSE o \in get_focused_object : TRUE).is_folder

====
